---- MODULE Spec2Model ----
(***************************************************************************)
(* A model of the SSSB housing scrapers.                                   *)
(*                                                                         *)
(*   query_sssb.py        SSSBScraper.query and its helpers _build_url,    *)
(*                        _parse_listing_row, _get_closing_date            *)
(*   scraper/listings.py  scrape_listings: login, listing scrape and the   *)
(*                        CSV append to storage/apartments.csv             *)
(*                                                                         *)
(* Python strings that the code takes apart (split, strip, replace) are    *)
(* sequences of one-character strings; values the code only passes on      *)
(* (links, dates, exception names) are atomic strings.  Python's None is   *)
(* the string "None" where the other values are atomic strings, and the    *)
(* empty tuple where they are not.                                         *)
(***************************************************************************)
EXTENDS Integers, Sequences, FiniteSets, TLC

VARIABLES
    prog,          \* which entry point runs: "query", "scrape", "parse", "url"
    pc,            \* position of the running function
    args,          \* arguments of the entry point
    url,           \* value returned by _build_url
    row_text,      \* _parse_listing_row: argument row_text
    parsed,        \* _parse_listing_row: returned value
    driver,        \* the WebDriver reference held: "None" or "live"
    live,          \* browser sessions created by this run and not quit
    created,       \* browser sessions created by this run
    nav,           \* pages the browser was sent to, in order
    page,          \* the listing page read (its text and its link hrefs), or None
    housings,      \* query: the list housings
    details,       \* the detail pages served, one per enriched record
    stderr,        \* diagnostics printed, in order
    stdout,        \* output printed, in order
    exc,           \* the exception propagating, or "None"
    exit_status,   \* exit status of the process, or "running"
    run,           \* the number of this run of scrape_listings on the file
    form,          \* the login form the browser met
    credit_days,   \* scrape_listings: credit_days
    apartments,    \* scrape_listings: the elements apartments of the page
    all_apartments, \* scrape_listings: all_apartments
    file,          \* storage/apartments.csv: whether it exists, and its lines
    file0,         \* the file as this run found it
    buffer,        \* lines written to csvfile and not yet flushed
    batches,       \* the earlier writes: how each ended and its all_apartments
    listing_wait   \* how the wait for the listing's marker element ended

urlVars == <<args, url>>
parseVars == <<row_text, parsed>>
browserVars == <<driver, live, created, nav>>
queryVars == <<page, housings, details>>
ioVars == <<stderr, stdout, exit_status>>
scrapeVars == <<run, form, credit_days, apartments, all_apartments, file0, batches>>
fileVars == <<file, buffer>>

vars == <<prog, pc, args, url, row_text, parsed, driver, live, created, nav, page, housings, details, stderr, stdout, exc, exit_status, run, form, credit_days, apartments, all_apartments, file, file0, buffer, batches, listing_wait>>

(***************************************************************************)
(* Bounds of the model.                                                    *)
(***************************************************************************)
MaxTokLen == 4
MaxDays == 12
MaxApplicants == 11
MaxLinks == 2
MaxBatch == 2
MaxWrites == 2
MaxRent == 2
MaxRecords == 2

(***************************************************************************)
(* Python str operations, on sequences of characters.                      *)
(***************************************************************************)
NL == "\n"

\* The no-break space U+00A0, one character
NBSP == "nbsp"

\* str.strip() removes leading and trailing whitespace
Whitespace == {" ", "\t", NL, NBSP}

RECURSIVE LStrip(_)
LStrip(s) ==
    IF s # <<>> /\ Head(s) \in Whitespace THEN LStrip(Tail(s)) ELSE s

RECURSIVE RStrip(_)
RStrip(s) ==
    IF s # <<>> /\ s[Len(s)] \in Whitespace
    THEN RStrip(SubSeq(s, 1, Len(s) - 1))
    ELSE s

Strip(s) == RStrip(LStrip(s))

\* c in s, for a single character c
Contains(s, c) == \E k \in 1..Len(s) : s[k] = c

FirstIndex(s, c) == CHOOSE k \in 1..Len(s) : s[k] = c /\ \A j \in 1..(k - 1) : s[j] # c

\* s.split(c) for a one-character separator: never the empty list
RECURSIVE Split(_, _)
Split(s, c) ==
    IF ~Contains(s, c)
    THEN <<s>>
    ELSE LET k == FirstIndex(s, c)
         IN  <<SubSeq(s, 1, k - 1)>> \o Split(SubSeq(s, k + 1, Len(s)), c)

\* c.join(parts)
RECURSIVE Join(_, _)
Join(parts, c) ==
    IF parts = <<>> THEN <<>>
    ELSE IF Len(parts) = 1 THEN parts[1]
    ELSE parts[1] \o <<c>> \o Join(Tail(parts), c)

StartsWith(s, pat) == Len(s) >= Len(pat) /\ SubSeq(s, 1, Len(pat)) = pat

\* s.replace(pat, "") for a non-empty pat: leftmost occurrences, not overlapping
RECURSIVE Remove(_, _)
Remove(s, pat) ==
    IF s = <<>> THEN <<>>
    ELSE IF StartsWith(s, pat) THEN Remove(SubSeq(s, Len(pat) + 1, Len(s)), pat)
    ELSE <<Head(s)>> \o Remove(Tail(s), pat)

(***************************************************************************)
(* SSSBScraper._build_url                                                  *)
(***************************************************************************)
LIST_URL == "https://sssb.se/en/looking-for-housing/apply-for-apartment/available-apartments/available-apartments-list/"

\* The housing types the model passes to _build_url
HousingTypes == {"room", "studio", "apartment", "all", "Room", "STUDIO", "house", ""}

\* str.lower() on the housing types of the model
Lower(t) ==
    CASE t = "Room" -> "room"
      [] t = "STUDIO" -> "studio"
      [] OTHER -> t

\* HOUSING_TYPE_CODES.get(key, "")
HOUSING_TYPE_CODES(key) ==
    CASE key = "room" -> "BOASR"
      [] key = "studio" -> "BOAS1"
      [] key = "apartment" -> "BOASL"
      [] key = "all" -> ""
      [] OTHER -> ""

\* An Optional value: None is the empty tuple, a value v the tuple <<v>>
None == <<>>
Some(v) == <<v>>

\* Python truthiness of an Optional[int]: None and 0 are falsy
TruthyInt(x) == x # None /\ x[1] # 0

\* Python truthiness of an Optional[str]: None and "" are falsy
TruthyStr(x) == x # None /\ x[1] # ""

\* One element of params: the f-string "key=value" as the pair <<key, value>>,
\* the empty string "" as the empty tuple
Param(key, value) == <<key, value>>
EmptyParam == <<>>

\* build_url with no filtering of the empty elements of params
build_url_unfiltered(housing_type, max_rent, area) ==
    LET type_code == HOUSING_TYPE_CODES(Lower(housing_type))
    IN  [base |-> LIST_URL,
         query |-> << IF type_code # "" THEN Param("objektTyper", type_code) ELSE EmptyParam,
                      IF TruthyInt(max_rent) THEN Param("hyraMax", ToString(max_rent[1])) ELSE EmptyParam,
                      IF TruthyStr(area) THEN Param("omraden", area[1]) ELSE EmptyParam,
                      Param("paginationantal", "100") >>]

\* The query string is "&".join(params) and the URL LIST_URL + "?" + query_string:
\* the URL is kept as the base and the ordered list of its key=value parameters.
build_url(housing_type, max_rent, area) ==
    LET type_code == HOUSING_TYPE_CODES(Lower(housing_type))
        params == << IF type_code # "" THEN Param("objektTyper", type_code) ELSE EmptyParam,
                     IF TruthyInt(max_rent) THEN Param("hyraMax", ToString(max_rent[1])) ELSE EmptyParam,
                     IF TruthyStr(area) THEN Param("omraden", area[1]) ELSE EmptyParam,
                     Param("paginationantal", "100") >>
        kept == SelectSeq(params, LAMBDA p : p # EmptyParam)
    IN  [base |-> LIST_URL, query |-> kept]

(***************************************************************************)
(* SSSBScraper._parse_listing_row                                          *)
(***************************************************************************)
\* queue_days_of taking the whole token, not its first word
queue_days_whole(queue_info) ==
    IF queue_info # <<>> THEN queue_info ELSE <<"0">>

\* queue_info.split(" ")[0] if queue_info else "0"
queue_days_of(queue_info) ==
    IF queue_info # <<>> THEN Split(queue_info, " ")[1] ELSE <<"0">>

\* applicants: "0", or the text between the first "(" and the next ")" with
\* every " st" removed, stripped
applicants_of(queue_info) ==
    IF Contains(queue_info, "(") /\ Contains(queue_info, ")")
    THEN Strip(Remove(Split(Split(queue_info, "(")[2], ")")[1], <<" ", "s", "t">>))
    ELSE <<"0">>

Housing(area, address, housing_type, floor, living_space, rent, move_in_date, queue_days, applicants, link) ==
    [ name |-> area \o <<" ", "-", " ">> \o address,
      area |-> area,
      address |-> address,
      housing_type |-> housing_type,
      floor |-> floor,
      living_space |-> living_space,
      rent |-> rent,
      move_in_date |-> move_in_date,
      queue_days |-> queue_days,
      applicants |-> applicants,
      link |-> link,
      closing_date |-> "None" ]

\* Returns Some(Housing), or None.  No statement of the try block raises
\* IndexError or ValueError on 8 or more parts, so the except branch is dead.
parse_listing_row(text, link) ==
    LET parts == Split(text, NL)
    IN  IF Len(parts) < 8
        THEN None
        ELSE LET queue_info == Strip(parts[8])
             IN  Some(Housing(Strip(parts[1]), Strip(parts[2]), Strip(parts[3]),
                              Strip(parts[4]), Strip(parts[5]), Strip(parts[6]),
                              Strip(parts[7]),
                              queue_days_of(queue_info), applicants_of(queue_info), link))

(***************************************************************************)
(* The listing page SSSBScraper.query reads.                               *)
(***************************************************************************)
FIELDS_PER_LISTING == 8

DigitChars == <<"0", "1", "2", "3", "4", "5", "6", "7", "8", "9">>

\* str(n) for n >= 0
RECURSIVE IntStr(_)
IntStr(n) ==
    IF n < 10 THEN <<DigitChars[n + 1]>>
    ELSE IntStr(n \div 10) \o <<DigitChars[(n % 10) + 1]>>

DigitValue(c) == (CHOOSE k \in 1..10 : DigitChars[k] = c) - 1

IsDigits(s) == s # <<>> /\ \A k \in 1..Len(s) : \E d \in 1..10 : DigitChars[d] = s[k]

\* the number a string of digits denotes
RECURSIVE StrInt(_)
StrInt(s) ==
    IF s = <<>> THEN 0
    ELSE 10 * StrInt(SubSeq(s, 1, Len(s) - 1)) + DigitValue(s[Len(s)])

\* The queue-info token "<d> (<n> st)"
QueueToken(d, n) == IntStr(d) \o <<" ", "(">> \o IntStr(n) \o <<" ", "s", "t", ")">>

\* The queue-info tokens of the pages of the model
PageTokens == { QueueToken(12, 3), <<"4", "5">>, <<"N", "/", "A">> }

\* The longest listing text of the model: one line more than MaxLinks listings
MaxLines == FIELDS_PER_LISTING * MaxLinks + 1

\* Line j of the listing text: the queue-info token on every 8th line, a
\* field text that names its line (with the padding the page renders) elsewhere
PageLine(j, toks) ==
    IF j % FIELDS_PER_LISTING = 0
    THEN toks[j \div FIELDS_PER_LISTING]
    ELSE <<" ", "f">> \o IntStr(j) \o <<" ">>

Href(i) == IntStr(i)

\* listing_container.text and the hrefs of listing_links, for a page of nl
\* text lines (none: the empty text) and n links
ListingPage(nl, toks, n) ==
    [ text |-> Join([j \in 1..nl |-> PageLine(j, toks)], NL),
      links |-> [i \in 1..n |-> Href(i)] ]

ListingPages ==
    UNION { UNION { { ListingPage(nl, toks, n) :
                      toks \in [1..(nl \div FIELDS_PER_LISTING) -> PageTokens] } :
                    nl \in 0..MaxLines } :
            n \in 0..MaxLinks }

(***************************************************************************)
(* SSSBScraper.query, lines 292-306: group the text rows into listings.    *)
(***************************************************************************)
\* listing_at with the bound of line 302 off by one: end_idx < len(rows)
listing_at_strict(rows, links, i) ==
    LET start_idx == i * FIELDS_PER_LISTING
        end_idx == start_idx + FIELDS_PER_LISTING
    IN  IF end_idx < Len(rows)
        THEN parse_listing_row(Join(SubSeq(rows, start_idx + 1, end_idx), NL), links[i + 1])
        ELSE None

\* The loop body for the link at (0-based) position i
listing_at(rows, links, i) ==
    LET start_idx == i * FIELDS_PER_LISTING
        end_idx == start_idx + FIELDS_PER_LISTING
    IN  IF end_idx <= Len(rows)
        THEN parse_listing_row(Join(SubSeq(rows, start_idx + 1, end_idx), NL), links[i + 1])
        ELSE None

\* housings after the loop over enumerate(links), from position i on
RECURSIVE group_rows(_, _, _)
group_rows(rows, links, i) ==
    IF i >= Len(links) THEN <<>>
    ELSE listing_at(rows, links, i) \o group_rows(rows, links, i + 1)

\* parse_page with the rows padded with empty lines to 8 lines per link, a
\* trailing partial listing filled up and kept
parse_page_padded(p) ==
    LET rows == Split(p.text, NL)
        missing == FIELDS_PER_LISTING * Len(p.links) - Len(rows)
    IN  group_rows(rows \o [j \in 1..(IF missing > 0 THEN missing ELSE 0) |-> <<>>], p.links, 0)

\* lines 292-306
parse_page(p) == group_rows(Split(p.text, NL), p.links, 0)

(***************************************************************************)
(* SSSBScraper._get_closing_date                                           *)
(***************************************************************************)
Dates == {"2024-01-15", "2024-02-01"}

\* The text of the deadline element, as its words
DeadlineTexts ==
    { <<"Application deadline:">>,
      <<"Application deadline:", "2024-01-15", "at", "12:00">>,
      <<"Application deadline:", "2024-02-01", "2024-01-15">> }

\* What the browser meets on a record's detail page: driver.get raising or
\* not, the content marker appearing before the timeout or not, the deadline
\* element found or not, and the element's text
DetailPages ==
    { [nav |-> "error", marker |-> FALSE, elem |-> FALSE, text |-> <<>>],
      [nav |-> "ok", marker |-> FALSE, elem |-> FALSE, text |-> <<>>],
      [nav |-> "ok", marker |-> TRUE, elem |-> FALSE, text |-> <<>>] }
    \cup { [nav |-> "ok", marker |-> TRUE, elem |-> TRUE, text |-> t] : t \in DeadlineTexts }

\* re.search(r"(\d{4}-\d{2}-\d{2})", text): the first date of the text, or "None"
RECURSIVE date_match(_)
date_match(text) ==
    IF text = <<>> THEN "None"
    ELSE IF Head(text) \in Dates THEN Head(text)
    ELSE date_match(Tail(text))

\* The value _get_closing_date returns with self.driver set: every exception
\* of the try block is caught and gives None
get_closing_date(d) ==
    IF d.nav = "error" THEN "None"
    ELSE IF ~d.marker THEN "None"
    ELSE IF ~d.elem THEN "None"
    ELSE date_match(d.text)

\* detail_raises with a handler for the deadline lookup alone: a failing
\* driver.get or a timed-out wait leaves _get_closing_date
detail_raises_uncaught(d) == d.nav = "error" \/ ~d.marker

\* `except Exception` at line 242 lets no failure of the detail fetch leave
\* _get_closing_date
detail_raises(d) == FALSE

(***************************************************************************)
(* SSSBScraper.query, called by main                                       *)
(***************************************************************************)
ArgTuples == { <<"all", None, None>>, <<"room", Some(5000), Some("Lappis")>> }

QueryArgs ==
    { [housing_type |-> t[1], max_rent |-> t[2], area |-> t[3],
       fetch_closing_dates |-> f, output |-> "table"] :
      t \in ArgTuples, f \in BOOLEAN }

NoFile == [exists |-> FALSE, lines |-> <<>>]

\* What every entry point starts from: nothing computed, no browser, nothing
\* printed
AtRest ==
    /\ url = "None"
    /\ parsed = None
    /\ driver = "None"
    /\ live = 0
    /\ created = 0
    /\ nav = <<>>
    /\ page = None
    /\ housings = <<>>
    /\ details = <<>>
    /\ stderr = <<>>
    /\ stdout = <<>>
    /\ exc = "None"
    /\ exit_status = "running"
    /\ form = None
    /\ apartments = <<>>
    /\ all_apartments = <<>>
    /\ buffer = <<>>
    /\ batches = <<>>
    /\ listing_wait = "none"

InitQuery ==
    /\ prog = "query"
    /\ pc = "q_create"
    /\ args \in QueryArgs
    /\ row_text = <<>>
    /\ run = 1
    /\ credit_days = <<>>
    /\ file = NoFile
    /\ file0 = NoFile
    /\ AtRest

\* line 267: self.driver = self._create_driver().  A WebDriverException goes to
\* the handler of line 317; any other exception (of the driver download, say)
\* leaves query through the finally block.  self.driver stays None either way.
QueryCreateDriver ==
    /\ prog = "query" /\ pc = "q_create"
    /\ \/ /\ driver' = "live"
          /\ live' = live + 1
          /\ created' = created + 1
          /\ pc' = "q_get"
          /\ exc' = exc
       \/ /\ exc' = "WebDriverException"
          /\ pc' = "q_except"
          /\ UNCHANGED <<driver, live, created>>
       \/ /\ exc' = "OSError"
          /\ pc' = "q_finally"
          /\ UNCHANGED <<driver, live, created>>
    /\ UNCHANGED <<prog, urlVars, parseVars, nav, queryVars, ioVars, scrapeVars, fileVars, listing_wait>>

\* lines 268-271: build the URL, print it, driver.get(url)
QueryGet ==
    /\ prog = "query" /\ pc = "q_get"
    /\ url' = build_url(args.housing_type, args.max_rent, args.area)
    /\ stderr' = Append(stderr, "Querying SSSB")
    /\ nav' = Append(nav, [kind |-> "listing", target |-> url'])
    /\ \/ pc' = "q_wait" /\ exc' = exc
       \/ pc' = "q_except" /\ exc' = "WebDriverException"
    /\ UNCHANGED <<prog, args, parseVars, driver, live, created, queryVars, stdout, exit_status, scrapeVars, fileVars, listing_wait>>

\* lines 274-280: wait for the marker element "media-body"
QueryWait ==
    /\ prog = "query" /\ pc = "q_wait"
    /\ \/ /\ listing_wait' = "ok"
          /\ pc' = "q_find"
          /\ UNCHANGED <<stderr, exc>>
       \/ /\ listing_wait' = "timeout"
          /\ stderr' = Append(stderr, "No listings found or page failed to load.")
          /\ pc' = "q_finally"
          /\ exc' = exc
       \/ /\ listing_wait' = "error"
          /\ pc' = "q_except"
          /\ exc' = "WebDriverException"
          /\ stderr' = stderr
    /\ UNCHANGED <<prog, urlVars, parseVars, browserVars, queryVars, stdout, exit_status, scrapeVars, fileVars>>

\* lines 283-310: find the container and the links (NoSuchElementException is a
\* WebDriverException), group the rows into listings, and announce the
\* enrichment when there is one
QueryParse ==
    /\ prog = "query" /\ pc = "q_find"
    /\ \/ \E p \in ListingPages :
            /\ page' = Some(p)
            /\ housings' = parse_page(p)
            /\ IF args.fetch_closing_dates /\ housings' # <<>>
               THEN pc' = "q_enrich" /\ stderr' = Append(stderr, "Fetching closing dates")
               ELSE pc' = "q_finally" /\ stderr' = stderr
            /\ exc' = exc
       \/ /\ pc' = "q_except" /\ exc' = "WebDriverException"
          /\ UNCHANGED <<page, housings, stderr>>
    /\ UNCHANGED <<prog, urlVars, parseVars, browserVars, details, stdout, exit_status, scrapeVars, fileVars, listing_wait>>

\* lines 311-313: one pass of the enrichment loop, for the record after the
\* ones already enriched
QueryEnrich ==
    /\ prog = "query" /\ pc = "q_enrich"
    /\ LET i == Len(details) + 1
       IN  \E d \in DetailPages :
             /\ stderr' = Append(stderr, "Processing")
             /\ nav' = Append(nav, [kind |-> "detail", target |-> housings[i].link])
             /\ details' = Append(details, d)
             /\ IF detail_raises(d)
                THEN /\ pc' = (IF d.nav = "error" \/ ~d.marker THEN "q_except" ELSE "q_finally")
                     /\ exc' = (IF d.nav = "error" \/ ~d.marker THEN "WebDriverException" ELSE "AttributeError")
                     /\ housings' = housings
                ELSE /\ housings' = [housings EXCEPT ![i].closing_date = get_closing_date(d)]
                     /\ pc' = (IF i = Len(housings) THEN "q_finally" ELSE "q_enrich")
                     /\ exc' = exc
    /\ UNCHANGED <<prog, urlVars, parseVars, driver, live, created, page, stdout, exit_status, scrapeVars, fileVars, listing_wait>>

\* lines 317-319: except WebDriverException: print and return housings
QueryExcept ==
    /\ prog = "query" /\ pc = "q_except"
    /\ stderr' = Append(stderr, "WebDriver error")
    /\ exc' = "None"
    /\ pc' = "q_finally"
    /\ UNCHANGED <<prog, urlVars, parseVars, browserVars, queryVars, stdout, exit_status, scrapeVars, fileVars, listing_wait>>

\* lines 320-323: finally: quit the driver if there is one.  query then
\* returns housings to main, or the exception reaches main.
QueryFinally ==
    /\ prog = "query" /\ pc = "q_finally"
    /\ IF driver # "None"
       THEN driver' = "None" /\ live' = live - 1
       ELSE UNCHANGED <<driver, live>>
    /\ pc' = (CASE exc = "None" -> "m_print"
                 [] exc = "KeyboardInterrupt" -> "m_interrupt"
                 [] OTHER -> "m_except")
    /\ UNCHANGED <<prog, urlVars, parseVars, created, nav, queryVars, ioVars, exc, scrapeVars, fileVars, listing_wait>>

\* lines 442-447: print the formatted housings
MainPrint ==
    /\ prog = "query" /\ pc = "m_print"
    /\ stdout' = Append(stdout, [format |-> args.output, housings |-> housings])
    /\ exit_status' = 0
    /\ pc' = "exit"
    /\ UNCHANGED <<prog, urlVars, parseVars, browserVars, queryVars, stderr, exc, scrapeVars, fileVars, listing_wait>>

\* lines 452-454: except Exception: print the error, sys.exit(1)
MainExcept ==
    /\ prog = "query" /\ pc = "m_except"
    /\ stderr' = Append(stderr, "Error")
    /\ exit_status' = 1
    /\ pc' = "exit"
    /\ UNCHANGED <<prog, urlVars, parseVars, browserVars, queryVars, stdout, exc, scrapeVars, fileVars, listing_wait>>

\* The positions of query at which a KeyboardInterrupt can be raised: any
\* statement of lines 267-323
InterruptPoints == {"q_create", "q_get", "q_wait", "q_find", "q_enrich", "q_except", "q_finally"}

\* A KeyboardInterrupt raised in query.  It is no Exception and no
\* WebDriverException: the handlers of lines 231, 242 and 317 let it pass and
\* the finally block of line 320 runs next.  Raised in line 267 it finds the
\* browser not yet launched, or launched and not yet assigned to self.driver;
\* raised in the finally block it finds driver.quit() done or not.
Interrupt ==
    /\ prog = "query" /\ pc \in InterruptPoints
    /\ exc' = "KeyboardInterrupt"
    /\ CASE pc = "q_create" ->
             /\ pc' = "q_finally"
             /\ driver' = driver
             /\ \/ UNCHANGED <<live, created>>
                \/ live' = live + 1 /\ created' = created + 1
        [] pc = "q_finally" ->
             /\ pc' = "m_interrupt"
             /\ created' = created
             /\ \/ UNCHANGED <<driver, live>>
                \/ /\ driver # "None"
                   /\ live' = live - 1
                   /\ driver' \in {driver, "None"}
        [] OTHER ->
             /\ pc' = "q_finally"
             /\ UNCHANGED <<driver, live, created>>
    /\ UNCHANGED <<prog, urlVars, parseVars, nav, queryVars, ioVars, scrapeVars, fileVars, listing_wait>>

\* lines 449-451: except KeyboardInterrupt: print "Operation cancelled." to
\* stderr, sys.exit(1)
MainInterrupt ==
    /\ prog = "query" /\ pc = "m_interrupt"
    /\ stderr' = Append(stderr, "Operation cancelled.")
    /\ exit_status' = 1
    /\ pc' = "exit"
    /\ UNCHANGED <<prog, urlVars, parseVars, browserVars, queryVars, stdout, exc, scrapeVars, fileVars, listing_wait>>

NextQuery ==
    \/ QueryCreateDriver
    \/ QueryGet
    \/ QueryWait
    \/ QueryParse
    \/ QueryEnrich
    \/ QueryExcept
    \/ QueryFinally
    \/ MainPrint
    \/ MainExcept

\* A run of query_sssb that an interrupt signal can reach
NextCancel ==
    \/ NextQuery
    \/ Interrupt
    \/ MainInterrupt

SpecCancel == InitQuery /\ [][NextCancel]_vars

(***************************************************************************)
(* scraper/listings.py: the values scrape_listings computes                *)
(***************************************************************************)
\* A Python dict: its items <<key, value>> in insertion order, keys unique
DictKeys(d) == [k \in 1..Len(d) |-> d[k][1]]

HasKey(d, key) == \E k \in 1..Len(d) : d[k][1] = key

DictSet(d, key, value) ==
    IF HasKey(d, key)
    THEN [k \in 1..Len(d) |-> IF d[k][1] = key THEN <<key, value>> ELSE d[k]]
    ELSE Append(d, <<key, value>>)

\* d.get(key, default)
DictGet(d, key, default) ==
    IF HasKey(d, key) THEN d[CHOOSE k \in 1..Len(d) : d[k][1] = key][2] ELSE default

\* dict(zip(headers, data)): zip stops at the shorter of the two, and a
\* later item replaces the value of an earlier one with the same key
RECURSIVE dict_upto(_, _, _)
dict_upto(headers, data, n) ==
    IF n = 0 THEN <<>>
    ELSE DictSet(dict_upto(headers, data, n - 1), headers[n], data[n])

dict_zip(headers, data) ==
    dict_upto(headers, data, IF Len(headers) < Len(data) THEN Len(headers) ELSE Len(data))

\* re.sub(r"\s*\(.*\)", "", s) on one line of text: the match runs from the
\* whitespace before the first "(" that has a ")" after it to the last ")"
LastIndex(s, c) == CHOOSE k \in 1..Len(s) : s[k] = c /\ \A j \in (k + 1)..Len(s) : s[j] # c

RECURSIVE WsStart(_, _)
WsStart(s, k) == IF k > 1 /\ s[k - 1] \in Whitespace THEN WsStart(s, k - 1) ELSE k

strip_parenthetical(s) ==
    IF Contains(s, "(") /\ Contains(s, ")") /\ FirstIndex(s, "(") < LastIndex(s, ")")
    THEN SubSeq(s, 1, WsStart(s, FirstIndex(s, "(")) - 1)
         \o SubSeq(s, LastIndex(s, ")") + 1, Len(s))
    ELSE s

\* int(s): surrounding whitespace and one sign are accepted; anything but
\* digits after that raises ValueError
IntLiteral(s) ==
    LET t == Strip(s)
        body == IF t # <<>> /\ Head(t) \in {"+", "-"} THEN Tail(t) ELSE t
    IN  [ok |-> IsDigits(body),
         value |-> IF ~IsDigits(body) THEN 0
                   ELSE IF Head(t) = "-" THEN 0 - StrInt(body) ELSE StrInt(body)]

\* str(n) for any integer n
SignedStr(n) == IF n < 0 THEN <<"-">> \o IntStr(0 - n) ELSE IntStr(n)

\* Lines 135-153, the body of the loop for one apartment element: the dict
\* apartment_info, or the exception the body raises (IndexError when data
\* has no entry 2 or 4, ValueError when the queue days are no integer)
apartment_info_of(apt, consultation_date, credit) ==
    LET data == SelectSeq(apt.data, LAMBDA x : x # <<>>)
    IN  IF Len(data) < 5 THEN [exc |-> "IndexError", info |-> <<>>]
        ELSE LET queue == IntLiteral(strip_parenthetical(data[5]))
                 cleaned == [data EXCEPT ![3] = Remove(data[3], <<NBSP>>),
                                         ![5] = SignedStr(queue.value)]
                 zipped == dict_zip(apt.headers, cleaned)
             IN  IF ~queue.ok THEN [exc |-> "ValueError", info |-> <<>>]
                 ELSE [exc |-> "None",
                       info |-> DictSet(DictSet(DictSet(DictSet(zipped,
                                    "Title", apt.title),
                                    "Address", apt.address),
                                    "ConsultationDate", consultation_date),
                                    "CreditDays", credit)]

\* The loop of lines 133-153 from element k on: the first exception ends it
RECURSIVE parse_apartments(_, _, _, _)
parse_apartments(elems, k, consultation_date, credit) ==
    IF k > Len(elems) THEN [exc |-> "None", all |-> <<>>]
    ELSE LET one == apartment_info_of(elems[k], consultation_date, credit)
             rest == parse_apartments(elems, k + 1, consultation_date, credit)
         IN  IF one.exc # "None" THEN [exc |-> one.exc, all |-> <<>>]
             ELSE IF rest.exc # "None" THEN rest
             ELSE [exc |-> "None", all |-> <<one.info>> \o rest.all]

\* csv.DictWriter: writeheader writes the fieldnames, writerow the values of
\* the fieldnames (restval "" for a missing key) and raises ValueError for a
\* dict with a key that is no fieldname
HeaderLine(fieldnames) == [kind |-> "header", cells |-> fieldnames]

DataLine(fieldnames, rowdict) ==
    [kind |-> "data",
     cells |-> [k \in 1..Len(fieldnames) |-> DictGet(rowdict, fieldnames[k], <<>>)]]

HasExtraKeys(fieldnames, rowdict) ==
    \E k \in 1..Len(rowdict) : \A j \in 1..Len(fieldnames) : fieldnames[j] # rowdict[k][1]

\* The bytes of new lines appended to the bytes of a file.  A "partial" line
\* is the unterminated start of a line, always the last of its file; a line
\* appended after it runs into it, and is "malformed" once terminated.
AppendLines(lines, new) ==
    IF new = <<>> THEN lines
    ELSE IF lines # <<>> /\ lines[Len(lines)].kind = "partial"
    THEN SubSeq(lines, 1, Len(lines) - 1)
         \o <<[kind |-> (IF new[1].kind = "partial" THEN "partial" ELSE "malformed"),
               cells |-> <<>>]>>
         \o Tail(new)
    ELSE lines \o new

PartialLine == [kind |-> "partial", cells |-> <<>>]

\* What a failing flush of the buffered lines can leave appended: some of the
\* lines, not all, and then possibly the start of the next one
FlushPrefixes(buffered) ==
    { SubSeq(buffered, 1, j) : j \in 0..(Len(buffered) - 1) }
    \cup { Append(SubSeq(buffered, 1, j), PartialLine) : j \in 0..(Len(buffered) - 1) }

(***************************************************************************)
(* scrape_listings, run by automate.py                                     *)
(***************************************************************************)
\* The login forms the browser can meet: which of the fields "log" and
\* "pwd" and of the "Log in" button the page holds
Forms == [log : BOOLEAN, pwd : BOOLEAN, button : BOOLEAN]

\* login_error with the field "pwd" never looked up
login_error_log_only(f) ==
    IF ~f.log THEN "TimeoutException"
    ELSE IF ~f.button THEN "NoSuchElementException"
    ELSE "None"

\* Lines 83-86: wait.until raises TimeoutException with no field "log",
\* find_element NoSuchElementException with no field "pwd" or no button
login_error(f) ==
    IF ~f.log THEN "TimeoutException"
    ELSE IF ~f.pwd THEN "NoSuchElementException"
    ELSE IF ~f.button THEN "NoSuchElementException"
    ELSE "None"

\* Line 118: wait.until raises TimeoutException when the element
\* "apartmentList" does not appear; no handler encloses the call
listing_wait_error(appeared) == IF appeared THEN "None" ELSE "TimeoutException"

\* The apartment elements of the pages of the model.  headers are the texts
\* of line 135 and data the texts of line 136, with the empty entry the
\* page's structure leaves in them.
AptKinds == {"good", "plain", "badqueue", "short", "extra", "fewer"}

AptHeaders == <<"Area", "Living space", "Rent", "Moving in", "Queue days", "Floor">>

AptElement(kind, r, idx) ==
    [ headers |-> CASE kind = "extra" -> Append(AptHeaders, "Elevator")
                    [] kind = "fewer" -> SubSeq(AptHeaders, 1, 5)
                    [] OTHER -> AptHeaders,
      data |-> << <<"L">>, <<"2", "1">>, <<>>, <<"4", NBSP, "5">> >>
               \o (IF kind = "short" THEN <<>> ELSE << <<"F", "e", "b">> >>)
               \o << CASE kind = "badqueue" -> <<"N", "/", "A">>
                       [] kind = "plain" -> <<"4", "5">>
                       [] OTHER -> <<"7", "8", "7", " ", "(", "1", "4", "s", "t", ")">> >>
               \o << <<"3">> >>
               \o (IF kind = "extra" THEN << <<"y">> >> ELSE <<>>),
      title |-> <<"T">> \o IntStr(r) \o IntStr(idx),
      address |-> <<"A">> \o IntStr(idx) ]

\* The pages: up to MaxBatch elements, at most one of them not "good"
AptPages(r) ==
    UNION { { [idx \in 1..n |-> AptElement(IF idx = odd THEN kind ELSE "good", r, idx)] :
              odd \in 1..n, kind \in AptKinds } \cup { <<>> } :
            n \in 0..MaxBatch }

\* datetime.now().strftime("%Y-%m-%d") of run r
ConsultationDate(r) == <<"D">> \o IntStr(r)

\* The file before the first write: absent or empty.  A file that an earlier
\* run wrote one apartment to.
EmptyFile == [exists |-> TRUE, lines |-> <<>>]

EarlierFile ==
    LET all == parse_apartments(<<AptElement("good", 0, 1)>>, 1, ConsultationDate(0), <<"9", "8">>).all
    IN  [exists |-> TRUE,
         lines |-> <<HeaderLine(DictKeys(all[1])), DataLine(DictKeys(all[1]), all[1])>>]

DataCount(lines) == Len(SelectSeq(lines, LAMBDA l : l.kind = "data"))

InitScrape ==
    /\ prog = "scrape"
    /\ pc = "s_create"
    /\ args = <<>>
    /\ row_text = <<>>
    /\ run = 1
    /\ credit_days = <<>>
    /\ file \in { NoFile, EmptyFile, EarlierFile }
    /\ file0 = file
    /\ AtRest

\* write_header without the test of the file: a header with every batch
write_header_always(f) == TRUE

\* lines 166-167: file_exists = os.path.exists(filename);
\* write_header = not file_exists or os.path.getsize(filename) == 0
write_header(f) == ~f.exists \/ f.lines = <<>>

\* An exception that no handler catches ends scrape_listings and automate.py
Raise(e) ==
    /\ exc' = e
    /\ pc' = "s_raised"
    /\ exit_status' = 1

\* line 78: driver = webdriver.Chrome(...)
ScrapeCreateDriver ==
    /\ prog = "scrape" /\ pc = "s_create"
    /\ \/ /\ driver' = "live"
          /\ live' = live + 1
          /\ created' = created + 1
          /\ pc' = "s_login"
          /\ UNCHANGED <<exc, exit_status>>
       \/ /\ Raise("WebDriverException")
          /\ UNCHANGED <<driver, live, created>>
    /\ UNCHANGED <<prog, urlVars, parseVars, nav, queryVars, stderr, stdout, scrapeVars, fileVars, listing_wait>>

\* lines 81-86: open the login page, wait for the form, fill it in, submit
ScrapeLogin ==
    /\ prog = "scrape" /\ pc = "s_login"
    /\ nav' = Append(nav, [kind |-> "login", target |-> "LOGIN_URL"])
    /\ \/ \E f \in Forms :
            /\ form' = Some(f)
            /\ IF login_error(f) = "None"
               THEN pc' = "s_credit" /\ UNCHANGED <<exc, exit_status>>
               ELSE Raise(login_error(f))
       \/ /\ Raise("WebDriverException")
          /\ form' = form
    /\ UNCHANGED <<prog, urlVars, parseVars, driver, live, created, queryVars, stderr, stdout,
                   run, credit_days, apartments, all_apartments, file0, batches, fileVars, listing_wait>>

\* lines 91-93: read the credit days off the dashboard; without the widget
\* membership_div is None and membership_div.find raises AttributeError
ScrapeCredit ==
    /\ prog = "scrape" /\ pc = "s_credit"
    /\ \/ /\ credit_days' = <<"9", "9">>
          /\ pc' = "s_listings"
          /\ UNCHANGED <<exc, exit_status>>
       \/ /\ Raise("AttributeError")
          /\ credit_days' = credit_days
    /\ UNCHANGED <<prog, urlVars, parseVars, browserVars, queryVars, stderr, stdout,
                   run, form, apartments, all_apartments, file0, batches, fileVars, listing_wait>>

\* lines 95-110: open the listings page, select the apartment type, click
\* the search button; each wait can time out
ScrapeListings ==
    /\ prog = "scrape" /\ pc = "s_listings"
    /\ nav' = Append(nav, [kind |-> "listings", target |-> "LISTINGS_URL"])
    /\ \/ pc' = "s_wait" /\ UNCHANGED <<exc, exit_status>>
       \/ Raise("TimeoutException")
    /\ UNCHANGED <<prog, urlVars, parseVars, driver, live, created, queryVars, stderr, stdout,
                   scrapeVars, fileVars, listing_wait>>

\* line 118: wait for the apartments to load
ScrapeWaitList ==
    /\ prog = "scrape" /\ pc = "s_wait"
    /\ \E appeared \in BOOLEAN :
         /\ listing_wait' = (IF appeared THEN "ok" ELSE "timeout")
         /\ IF listing_wait_error(appeared) = "None"
            THEN pc' = "s_parse" /\ UNCHANGED <<exc, exit_status>>
            ELSE Raise(listing_wait_error(appeared))
    /\ UNCHANGED <<prog, urlVars, parseVars, browserVars, queryVars, stderr, stdout,
                   scrapeVars, fileVars>>

\* lines 123-161: parse the page into all_apartments; an empty all_apartments
\* ends the function with nothing written
ScrapeParse ==
    /\ prog = "scrape" /\ pc = "s_parse"
    /\ \E elems \in AptPages(run) :
         LET r == parse_apartments(elems, 1, ConsultationDate(run), credit_days)
         IN  /\ apartments' = elems
             /\ IF r.exc # "None"
                THEN Raise(r.exc) /\ all_apartments' = all_apartments
                ELSE /\ all_apartments' = r.all
                     /\ pc' = (IF r.all # <<>> THEN "s_open" ELSE "s_done")
                     /\ UNCHANGED <<exc, exit_status>>
    /\ UNCHANGED <<prog, urlVars, parseVars, browserVars, queryVars, stderr, stdout,
                   run, form, credit_days, file0, batches, fileVars, listing_wait>>

\* lines 163-172: take the fieldnames of the first dict, decide on the header,
\* open the file for appending (which creates it) and write the header
ScrapeOpen ==
    /\ prog \in {"scrape", "store"} /\ pc = "s_open"
    /\ LET fieldnames == DictKeys(all_apartments[1])
       IN  \/ /\ file' = [file EXCEPT !.exists = TRUE]
              /\ buffer' = (IF write_header(file) THEN <<HeaderLine(fieldnames)>> ELSE <<>>)
              /\ pc' = "s_rows"
              /\ UNCHANGED <<exc, exit_status>>
           \/ /\ Raise("OSError")
              /\ UNCHANGED <<file, buffer>>
    /\ UNCHANGED <<prog, urlVars, parseVars, browserVars, queryVars, stderr, stdout, scrapeVars, listing_wait>>

\* lines 173-174: one pass of the loop over all_apartments
ScrapeWriteRow ==
    /\ prog \in {"scrape", "store"} /\ pc = "s_rows"
    /\ LET fieldnames == DictKeys(all_apartments[1])
           apt == all_apartments[DataCount(buffer) + 1]
       IN  IF HasExtraKeys(fieldnames, apt)
           THEN /\ exc' = "ValueError"
                /\ pc' = "s_close"
                /\ buffer' = buffer
           ELSE /\ buffer' = Append(buffer, DataLine(fieldnames, apt))
                /\ pc' = (IF DataCount(buffer') = Len(all_apartments) THEN "s_close" ELSE "s_rows")
                /\ exc' = exc
    /\ UNCHANGED <<prog, urlVars, parseVars, browserVars, queryVars, ioVars, scrapeVars, file, listing_wait>>

\* line 169, leaving the with block: the file is closed and the buffered
\* lines are flushed to it; a flush that fails raises OSError
ScrapeClose ==
    /\ prog \in {"scrape", "store"} /\ pc = "s_close"
    /\ buffer' = <<>>
    /\ \/ /\ file' = [file EXCEPT !.lines = AppendLines(file.lines, buffer)]
          /\ IF exc = "None"
             THEN pc' = "s_done" /\ UNCHANGED <<exc, exit_status>>
             ELSE Raise(exc)
       \/ \E written \in FlushPrefixes(buffer) :
            /\ file' = [file EXCEPT !.lines = AppendLines(file.lines, written)]
            /\ Raise("OSError")
    /\ UNCHANGED <<prog, urlVars, parseVars, browserVars, queryVars, stderr, stdout, scrapeVars, listing_wait>>

NextScrape ==
    \/ ScrapeCreateDriver
    \/ ScrapeLogin
    \/ ScrapeCredit
    \/ ScrapeListings
    \/ ScrapeWaitList
    \/ ScrapeParse
    \/ ScrapeOpen
    \/ ScrapeWriteRow
    \/ ScrapeClose

(***************************************************************************)
(* The store alone: lines 158-174 of scrape_listings run on one file by    *)
(* successive runs, each with the all_apartments its page gave.            *)
(***************************************************************************)
\* The pages of the successive runs: up to MaxBatch elements, all "good" but
\* possibly the last, which may bring one field more or one field fewer
StorePages(r) ==
    UNION { { [idx \in 1..n |-> AptElement(IF idx = n THEN kind ELSE "good", r, idx)] :
              kind \in {"good", "extra", "fewer"} } :
            n \in 0..MaxBatch }

InitStore ==
    /\ prog = "store"
    /\ pc = "s_idle"
    /\ args = <<>>
    /\ row_text = <<>>
    /\ run = 0
    /\ credit_days = <<"9", "9">>
    /\ file \in { NoFile, EmptyFile }
    /\ file0 = file
    /\ AtRest

\* The next run reaches line 158 with its all_apartments; line 161 skips the
\* write when the list is empty
StoreBegin ==
    /\ prog = "store" /\ pc \in {"s_idle", "s_done", "s_raised"}
    /\ run < MaxWrites
    /\ run' = run + 1
    /\ batches' = (IF pc = "s_idle" THEN batches
                   ELSE Append(batches, [ok |-> pc = "s_done", all |-> all_apartments]))
    /\ file0' = file
    /\ \E elems \in StorePages(run') :
         /\ apartments' = elems
         /\ all_apartments' = parse_apartments(elems, 1, ConsultationDate(run'), credit_days).all
    /\ pc' = (IF all_apartments' # <<>> THEN "s_open" ELSE "s_done")
    /\ exc' = "None"
    /\ exit_status' = "running"
    /\ UNCHANGED <<prog, urlVars, parseVars, browserVars, queryVars, stderr, stdout,
                   form, credit_days, fileVars, listing_wait>>

NextStore ==
    \/ StoreBegin
    \/ ScrapeOpen
    \/ ScrapeWriteRow
    \/ ScrapeClose

SpecStore == InitStore /\ [][NextStore]_vars

(***************************************************************************)
(* _build_url alone, on the filter tuples of UrlArgs.                      *)
(***************************************************************************)
UrlArgs ==
    [ housing_type : HousingTypes,
      max_rent : {None} \cup { Some(r) : r \in (0 - 1)..MaxRent },
      area : {None, Some(""), Some("Lappis"), Some("Kungshamra")} ]

InitUrl ==
    /\ prog = "url"
    /\ pc = "u_call"
    /\ args \in UrlArgs
    /\ row_text = <<>>
    /\ run = 1
    /\ credit_days = <<>>
    /\ file = NoFile
    /\ file0 = NoFile
    /\ AtRest

BuildUrl ==
    /\ prog = "url" /\ pc = "u_call"
    /\ url' = build_url(args.housing_type, args.max_rent, args.area)
    /\ pc' = "u_done"
    /\ UNCHANGED <<prog, args, parseVars, browserVars, queryVars, ioVars, exc, scrapeVars, fileVars, listing_wait>>

NextUrl == BuildUrl

SpecUrl == InitUrl /\ [][NextUrl]_vars

(***************************************************************************)
(* _parse_listing_row alone, on rows whose queue-info line is any token of *)
(* Tokens.                                                                 *)
(***************************************************************************)
TokenChars == {"1", "2", " ", "(", ")", "s", "t"}

RawTokens == UNION { [1..n -> TokenChars] : n \in 0..MaxTokLen }

FormTokens == { QueueToken(d, n) : d \in 0..MaxDays, n \in 0..MaxApplicants }

Tokens == RawTokens \cup FormTokens \cup { <<" ">> \o t \o <<" ", "\t">> : t \in FormTokens }

\* A row of 8 lines with the given queue-info line
RowOf(tok) == Join([j \in 1..FIELDS_PER_LISTING |-> PageLine(j, <<tok>>)], NL)

\* Rows of 8 lines, and the rows of fewer or more lines of one token
RowTexts ==
    { RowOf(tok) : tok \in Tokens }
    \cup { Join([j \in 1..n |-> PageLine(j, <<QueueToken(MaxDays, 1)>>)], NL) :
           n \in 0..(FIELDS_PER_LISTING + 1) }

InitParse ==
    /\ prog = "parse"
    /\ pc = "p_call"
    /\ args = [link |-> Href(1)]
    /\ row_text \in RowTexts
    /\ run = 1
    /\ credit_days = <<>>
    /\ file = NoFile
    /\ file0 = NoFile
    /\ AtRest

ParseRow ==
    /\ prog = "parse" /\ pc = "p_call"
    /\ parsed' = parse_listing_row(row_text, args.link)
    /\ pc' = "p_done"
    /\ UNCHANGED <<prog, urlVars, row_text, browserVars, queryVars, ioVars, exc, scrapeVars, fileVars, listing_wait>>

NextParse == ParseRow

SpecParse == InitParse /\ [][NextParse]_vars

Init == InitQuery \/ InitScrape

Next == NextQuery \/ NextScrape

Spec == Init /\ [][Next]_vars

(***************************************************************************)
(* format_table, format_json, format_csv.  A text is a sequence of         *)
(* characters; a fixed label of the source is kept as one element of it.   *)
(***************************************************************************)
CR == "\r"

\* The concatenation of a sequence of texts
RECURSIVE Flatten(_)
Flatten(texts) == IF texts = <<>> THEN <<>> ELSE Head(texts) \o Flatten(Tail(texts))

\* datetime.now() as text, whatever the clock says
NowText == <<"now">>

\* closing_date as text: atomic in Housing, one element here
DateText(closing_date) == <<closing_date>>

\* Housing.__str__, lines 94-104
HousingStr(h) ==
    h.name \o <<" (">> \o h.area \o <<") - ">> \o h.housing_type \o <<NL>>
    \o <<"  Address: ">> \o h.address \o <<NL>>
    \o <<"  Rent: ">> \o h.rent \o <<" | Space: ">> \o h.living_space
    \o <<" | Floor: ">> \o h.floor \o <<NL>>
    \o <<"  Move-in: ">> \o h.move_in_date \o <<NL>>
    \o <<"  Best Bid: ">> \o h.queue_days \o <<" days | Applicants: ">> \o h.applicants \o <<NL>>
    \o <<"  Closing Date: ">>
    \o (IF h.closing_date = "None" THEN <<"N/A">> ELSE DateText(h.closing_date)) \o <<NL>>
    \o <<"  Link: ">> \o h.link

\* lines 326-342
format_table(hs) ==
    IF hs = <<>>
    THEN <<"No housing listings found.">>
    ELSE Join( << <<"=" , "*80">>,
                  <<"SSSB Available Housing - ">> \o NowText,
                  <<"Total listings: ">> \o IntStr(Len(hs)),
                  <<"=", "*80">> >>
               \o Flatten([i \in 1..Len(hs) |-> << <<>>, HousingStr(hs[i]), <<"-", "*80">> >>]),
               NL )

\* A JSON value, tagged: a string (its text), a number, null, a list of values,
\* a dict as its <<key, value>> items in insertion order
JStr(text) == [t |-> "str", v |-> text]
JInt(n) == [t |-> "int", v |-> n]
JNull == [t |-> "null", v |-> <<>>]
JList(values) == [t |-> "list", v |-> values]
JDict(items) == [t |-> "dict", v |-> items]

\* Housing.to_dict, lines 78-92
to_dict(h) ==
    JDict(<< <<"name", JStr(h.name)>>,
             <<"area", JStr(h.area)>>,
             <<"address", JStr(h.address)>>,
             <<"type", JStr(h.housing_type)>>,
             <<"floor", JStr(h.floor)>>,
             <<"living_space", JStr(h.living_space)>>,
             <<"rent", JStr(h.rent)>>,
             <<"move_in_date", JStr(h.move_in_date)>>,
             <<"best_bid", JStr(h.queue_days)>>,
             <<"applicants", JStr(h.applicants)>>,
             <<"closing_date", IF h.closing_date = "None" THEN JNull
                               ELSE JStr(DateText(h.closing_date))>>,
             <<"link", JStr(h.link)>> >>)

\* json.dumps of a string, without its quotes: the characters '"', '\', newline
\* and carriage return are written as two-character escapes
json_escape_char(c) ==
    CASE c = "\"" -> <<"\\", "\"">>
      [] c = "\\" -> <<"\\", "\\">>
      [] c = NL -> <<"\\", "n">>
      [] c = CR -> <<"\\", "r">>
      [] OTHER -> <<c>>

json_escape(text) == Flatten([k \in 1..Len(text) |-> json_escape_char(text[k])])

\* A token of JSON text: punctuation, a string literal (its escaped text), a
\* number literal or null.  Whitespace between tokens (indent=2) is left out.
Punct(c) == [k |-> "punct", v |-> <<c>>]

\* the tokens of its argument after the first one, each preceded by a comma
RECURSIVE CommaSep(_)
CommaSep(tokenLists) ==
    IF tokenLists = <<>> THEN <<>>
    ELSE IF Len(tokenLists) = 1 THEN tokenLists[1]
    ELSE tokenLists[1] \o <<Punct(",")>> \o CommaSep(Tail(tokenLists))

\* json.dumps(value, indent=2, ensure_ascii=False), as tokens
RECURSIVE json_dumps(_)
json_dumps(value) ==
    CASE value.t = "str" -> <<[k |-> "string", v |-> json_escape(value.v)]>>
      [] value.t = "int" -> <<[k |-> "number", v |-> IntStr(value.v)]>>
      [] value.t = "null" -> <<[k |-> "null", v |-> <<>>]>>
      [] value.t = "list" ->
           <<Punct("[")>>
           \o CommaSep([i \in 1..Len(value.v) |-> json_dumps(value.v[i])])
           \o <<Punct("]")>>
      [] value.t = "dict" ->
           <<Punct("{")>>
           \o CommaSep([i \in 1..Len(value.v) |->
                          <<[k |-> "string", v |-> json_escape(<<value.v[i][1]>>)], Punct(":")>>
                          \o json_dumps(value.v[i][2])])
           \o <<Punct("}")>>

\* lines 345-352
format_json(hs) ==
    json_dumps(JDict(<< <<"timestamp", JStr(NowText)>>,
                        <<"total", JInt(Len(hs))>>,
                        <<"listings", JList([i \in 1..Len(hs) |-> to_dict(hs[i])])>> >>))

\* lines 360-363
CsvHeaders ==
    << <<"Name">>, <<"Area">>, <<"Address">>, <<"Type">>, <<"Floor">>, <<"Living Space">>,
       <<"Rent">>, <<"Move-in Date">>, <<"Best Bid">>, <<"Applicants">>, <<"Closing Date">>,
       <<"Link">> >>

\* lines 367-371
csv_row_of(h) ==
    << h.name, h.area, h.address, h.housing_type, h.floor, h.living_space,
       h.rent, h.move_in_date, h.queue_days, h.applicants,
       IF h.closing_date = "None" THEN <<>> ELSE DateText(h.closing_date), h.link >>

\* csv_field with the text written as it is, never quoted
csv_field_raw(text) == text

\* csv.writer with QUOTE_MINIMAL: a field holding the delimiter, the quote
\* character or a character of the line terminator is written between quotes,
\* its quote characters doubled
csv_field(text) ==
    IF \E k \in 1..Len(text) : text[k] \in {",", "\"", CR, NL}
    THEN <<"\"">>
         \o Flatten([k \in 1..Len(text) |-> IF text[k] = "\"" THEN <<"\"", "\"">> ELSE <<text[k]>>])
         \o <<"\"">>
    ELSE text

\* writer.writerow: the fields joined by "," and the line terminator "\r\n"
csv_writerow(fields) ==
    Join([i \in 1..Len(fields) |-> csv_field(fields[i])], ",") \o <<CR, NL>>

\* str.rstrip('\n')
RECURSIVE rstrip_newline(_)
rstrip_newline(s) ==
    IF s # <<>> /\ s[Len(s)] = NL THEN rstrip_newline(SubSeq(s, 1, Len(s) - 1)) ELSE s

\* lines 355-373
format_csv(hs) ==
    rstrip_newline(csv_writerow(CsvHeaders)
                   \o Flatten([i \in 1..Len(hs) |-> csv_writerow(csv_row_of(hs[i]))]))

(***************************************************************************)
(* The formatters alone, as main calls them (lines 442-447), on the        *)
(* collections of FormatInputs.                                            *)
(***************************************************************************)
AreaTexts == { <<"L">>, <<"K", ",", " ", "L">> }

AddressTexts == { <<"a">>, <<"a", ",", "b">>, <<"s", "\"", "t">>, <<"a", NL, "b">> }

RecordChoices == AreaTexts \X AddressTexts \X ({"None"} \cup {"2024-01-15"})

\* The i-th record of a collection: area, address and closing date as chosen,
\* its link the i-th href
FormatRecord(c, i) ==
    [ Housing(c[1], c[2], <<"R">>, <<"1">>, <<"2", "0">>, <<"5">>, <<"F">>,
              <<"1", "2">>, <<"3">>, Href(i))
      EXCEPT !.closing_date = c[3] ]

FormatInputs ==
    UNION { { [i \in 1..k |-> FormatRecord(c[i], i)] : c \in [1..k -> RecordChoices] } :
            k \in 0..MaxRecords }

InitFormat ==
    /\ prog = "format"
    /\ pc = "f_call"
    /\ args \in [output : {"table", "json", "csv"}, housings : FormatInputs]
    /\ row_text = <<>>
    /\ run = 1
    /\ credit_days = <<>>
    /\ file = NoFile
    /\ file0 = NoFile
    /\ AtRest

\* lines 442-447: print(format_table(housings)), format_json or format_csv
\* by args.output
FormatOutput ==
    /\ prog = "format" /\ pc = "f_call"
    /\ stdout' = Append(stdout,
                        [format |-> args.output,
                         text |-> CASE args.output = "table" -> format_table(args.housings)
                                    [] args.output = "json" -> format_json(args.housings)
                                    [] args.output = "csv" -> format_csv(args.housings)])
    /\ pc' = "f_done"
    /\ UNCHANGED <<prog, urlVars, parseVars, browserVars, queryVars, stderr, exit_status, exc,
                   scrapeVars, fileVars, listing_wait>>

NextFormat == FormatOutput

SpecFormat == InitFormat /\ [][NextFormat]_vars

(***************************************************************************)
(* Properties                                                              *)
(***************************************************************************)
\* The number of lines of the listing text read, len(listing_text.split("\n")),
\* and the links read
LineCount == Len(Split(page[1].text, NL))
Links == page[1].links

RecordsFollowLinks ==
    /\ Len(housings) = Len(Links)
    /\ \A i \in 1..Len(housings) : housings[i].link = Links[i] /\ housings[i].link # <<>>

\* C1 as stated: whenever query has read a listing page whose line count is an
\* exact multiple of 8, it holds one record per link, the i-th record carrying
\* the i-th link.
C1_MultipleOfArity ==
    (prog = "query" /\ page # None /\ LineCount % FIELDS_PER_LISTING = 0)
        => RecordsFollowLinks

\* C1 amended: the same, for pages whose line count is a multiple of 8 and at
\* least 8 lines per link.
C1_EnoughLines ==
    (prog = "query" /\ page # None /\ LineCount % FIELDS_PER_LISTING = 0
       /\ LineCount >= FIELDS_PER_LISTING * Len(Links))
        => RecordsFollowLinks

C1_Witness ==
    /\ prog = "query" /\ pc = "exit" /\ page # None
    /\ Len(Links) = 2 /\ LineCount = 16
    /\ Len(housings) = 2
    /\ housings[2].link = Links[2]

\* The queue-info line of the row given to _parse_listing_row
RowToken == Split(row_text, NL)[FIELDS_PER_LISTING]

RowParsed == prog = "parse" /\ pc = "p_done" /\ parsed # None

NoParenthesis(tok) == ~Contains(tok, "(") /\ ~Contains(tok, ")")

\* w is the text of t before its first space (all of t when it has none)
IsFirstWord(w, t) ==
    /\ Len(w) <= Len(t)
    /\ w = SubSeq(t, 1, Len(w))
    /\ ~Contains(w, " ")
    /\ (Len(w) < Len(t) => t[Len(w) + 1] = " ")

\* The first half of C2: a token "<d> (<n> st)" gives queue_days the digits of
\* d and applicants the digits of n; and a token without parenthesis gives
\* applicants "0".
TokenOfFormParsed ==
    \A d \in 0..MaxDays, n \in 0..MaxApplicants :
        (RowParsed /\ Strip(RowToken) = QueueToken(d, n))
            => /\ IsDigits(parsed[1].queue_days) /\ StrInt(parsed[1].queue_days) = d
               /\ IsDigits(parsed[1].applicants) /\ StrInt(parsed[1].applicants) = n

\* C2 as stated: for a token "<d> (<n> st)" queue_days is d and applicants is n;
\* for a token without parenthesis applicants is "0" and queue_days is the whole
\* token stripped of whitespace.
C2_WholeToken ==
    /\ TokenOfFormParsed
    /\ (RowParsed /\ NoParenthesis(RowToken))
           => /\ parsed[1].applicants = <<"0">>
              /\ parsed[1].queue_days = Strip(RowToken)

\* C2 amended: for a token without parenthesis applicants is "0" and queue_days
\* is the first space-delimited word of the stripped token, "0" when the
\* stripped token is empty.
C2_FirstWord ==
    /\ TokenOfFormParsed
    /\ (RowParsed /\ NoParenthesis(RowToken))
           => /\ parsed[1].applicants = <<"0">>
              /\ IF Strip(RowToken) = <<>>
                 THEN parsed[1].queue_days = <<"0">>
                 ELSE IsFirstWord(parsed[1].queue_days, Strip(RowToken))

C2_Witness ==
    /\ RowParsed
    /\ RowToken = <<" ", "1", " ", "2">>
    /\ NoParenthesis(RowToken)
    /\ parsed[1].queue_days = <<"1">>
    /\ parsed[1].applicants = <<"0">>

\* The dicts of the batches written so far, in write order, once the current
\* write has completed
RECURSIVE Concat(_)
Concat(seqs) == IF seqs = <<>> THEN <<>> ELSE Head(seqs) \o Concat(Tail(seqs))

Written == Concat([k \in 1..Len(batches) |-> batches[k].all]) \o all_apartments

AllWritesCompleted == pc = "s_done" /\ \A k \in 1..Len(batches) : batches[k].ok

SameSchema(dicts) == \A i \in 1..Len(dicts) : DictKeys(dicts[i]) = DictKeys(dicts[1])

DataLines(fieldnames, dicts) == [i \in 1..Len(dicts) |-> DataLine(fieldnames, dicts[i])]

EndsComplete(lines) == lines = <<>> \/ lines[Len(lines)].kind # "partial"

\* C3: on a file that was absent or empty at first, once every write so far
\* has completed, with batches of one schema and at least one record, the file
\* holds one header line, first, and then one data line per record written, in
\* write order; and a completed write to a file that already held lines adds
\* data lines only and leaves the complete lines it found as they were.
C3_OneHeaderThenRows ==
    /\ (prog = "store" /\ AllWritesCompleted /\ Written # <<>> /\ SameSchema(Written))
           => /\ file.exists
              /\ file.lines = <<HeaderLine(DictKeys(Written[1]))>>
                                \o DataLines(DictKeys(Written[1]), Written)
    /\ (prog = "store" /\ pc = "s_done" /\ file0.lines # <<>>)
           => /\ \A k \in 1..Len(file0.lines) :
                    file0.lines[k].kind # "partial" => file.lines[k] = file0.lines[k]
              /\ \A k \in (Len(file0.lines) + 1)..Len(file.lines) : file.lines[k].kind = "data"
              /\ EndsComplete(file0.lines)
                    => file.lines = file0.lines
                                      \o DataLines(DictKeys(all_apartments[1]), all_apartments)

C3_Witness ==
    /\ prog = "store" /\ run = 2 /\ AllWritesCompleted
    /\ Len(batches[1].all) = 2 /\ Len(all_apartments) = 2
    /\ SameSchema(Written)
    /\ Len(file0.lines) = 3
    /\ Len(file.lines) = 5
    /\ file.lines[1].kind = "header"

\* A detail fetch fails: navigation error, timeout on the marker, no deadline
\* element, or no date in its text
DetailFails(d) ==
    \/ d.nav = "error"
    \/ ~d.marker
    \/ ~d.elem
    \/ \A k \in 1..Len(d.text) : d.text[k] \notin Dates

\* date is the first date of the text of the deadline element
IsFirstDate(date, d) ==
    \E k \in 1..Len(d.text) :
        /\ d.text[k] = date
        /\ date \in Dates
        /\ \A j \in 1..(k - 1) : d.text[j] \notin Dates

\* C4: every record whose detail fetch failed has no closing date, every other
\* enriched record has the date of its own detail page, and a query that parsed
\* K records with enrichment on returns all K, each one enriched, whatever
\* fetches failed.
C4_FailuresIsolated ==
    /\ \A i \in 1..Len(details) :
          IF DetailFails(details[i])
          THEN housings[i].closing_date = "None"
          ELSE IsFirstDate(housings[i].closing_date, details[i])
    /\ (prog = "query" /\ page # None /\ args.fetch_closing_dates)
          => /\ pc \in {"q_enrich", "q_finally", "m_print", "exit"}
             /\ exc = "None"
             /\ Len(housings) = Len(parse_page(page[1]))
             /\ pc # "q_enrich" => Len(details) = Len(housings)
    /\ (prog = "query" /\ pc = "exit" /\ page # None)
          => /\ exit_status = 0
             /\ stdout[Len(stdout)].housings = housings

C4_Witness ==
    /\ prog = "query" /\ pc = "exit"
    /\ Len(housings) = 2 /\ Len(details) = 2
    /\ details[1].nav = "ok" /\ ~details[1].marker
    /\ ~DetailFails(details[2])
    /\ housings[1].closing_date = "None"
    /\ housings[2].closing_date = "2024-02-01"
    /\ Len(stdout[1].housings) = 2

\* The run has ended: main has exited, or scrape_listings has returned or
\* raised
RunEnded ==
    \/ prog = "query" /\ pc = "exit"
    \/ prog = "scrape" /\ pc \in {"s_done", "s_raised"}

\* C5: a run whose wait for the listing's marker element timed out ends with no
\* record, a diagnostic printed, no exception with the caller and no error
\* status.
C5_TimeoutIsEmptyResult ==
    (RunEnded /\ listing_wait = "timeout")
        => /\ exc = "None"
           /\ exit_status # 1
           /\ housings = <<>> /\ all_apartments = <<>>
           /\ \E k \in 1..Len(stderr) : stderr[k] = "No listings found or page failed to load."

\* C6: a run creates at most one browser session, and when it has ended no
\* session it created is live.
C6_SessionReleased ==
    /\ (prog \in {"query", "scrape"}) => (created <= 1 /\ live <= 1)
    /\ RunEnded => live = 0

\* The queue-days text of an apartment element is no integer
QueueDaysNotNumeric(apt) ==
    LET data == SelectSeq(apt.data, LAMBDA x : x # <<>>)
    IN  Len(data) >= 5 /\ ~IntLiteral(strip_parenthetical(data[5])).ok

\* C7: a run of scrape_listings whose page has rows with non-numeric queue days,
\* and rows that are well formed otherwise, ends with one record for every other
\* row, and these are persisted; and SSSBScraper.query holds no record whose
\* queue days are not numeric.
C7_RowFailureDropsOneRecord ==
    /\ (prog = "scrape" /\ pc \in {"s_done", "s_raised"}
          /\ \E k \in 1..Len(apartments) : QueueDaysNotNumeric(apartments[k]))
          => /\ exc \notin {"ValueError", "IndexError"}
             /\ Len(all_apartments)
                  = Len(SelectSeq(apartments, LAMBDA a : ~QueueDaysNotNumeric(a)))
    /\ prog = "query" => \A i \in 1..Len(housings) : IsDigits(housings[i].queue_days)

\* C8: once the browser has met a login form without the field "log" or the
\* field "pwd", the run has ended with the exception of the lookup, the
\* listings page was never opened, nothing was parsed and the store is as the
\* run found it.
C8_NoLoginNoListing ==
    (prog = "scrape" /\ form # None /\ (~form[1].log \/ ~form[1].pwd))
        => /\ pc = "s_raised"
           /\ exc \in {"TimeoutException", "NoSuchElementException"}
           /\ \A k \in 1..Len(nav) : nav[k].kind # "listings"
           /\ apartments = <<>> /\ all_apartments = <<>>
           /\ file = file0 /\ buffer = <<>>

C8_Witness ==
    /\ prog = "scrape" /\ pc = "s_raised"
    /\ form # None /\ form[1].log /\ ~form[1].pwd
    /\ exc = "NoSuchElementException"
    /\ file = EarlierFile
    /\ Len(nav) = 1

UrlBuilt == prog = "url" /\ pc = "u_done"

\* The parameters of the URL built with the given key, in order
ParamsOf(key) == SelectSeq(url.query, LAMBDA p : p # <<>> /\ p[1] = key)

\* The type parameter wanted for the housing type asked, compared without case
TypeParams ==
    CASE args.housing_type \in {"room", "Room"} -> << <<"objektTyper", "BOASR">> >>
      [] args.housing_type \in {"studio", "STUDIO"} -> << <<"objektTyper", "BOAS1">> >>
      [] args.housing_type = "apartment" -> << <<"objektTyper", "BOASL">> >>
      [] OTHER -> <<>>

\* C9: the URL built holds the type parameter, with its fixed code, only for
\* room, studio and apartment; the rent parameter exactly when max_rent is
\* neither absent nor 0, so for every positive max_rent; the area parameter
\* exactly when area is neither absent nor empty; no empty parameter; and the
\* page-size parameter of 100 results once, last.
C9_UrlOfFilters ==
    UrlBuilt
        => /\ url.base = LIST_URL
           /\ ParamsOf("objektTyper") = TypeParams
           /\ ParamsOf("hyraMax")
                = (IF args.max_rent \in {None, Some(0)} THEN <<>>
                   ELSE << <<"hyraMax", ToString(args.max_rent[1])>> >>)
           /\ ParamsOf("omraden")
                = (IF args.area \in {None, Some("")} THEN <<>>
                   ELSE << <<"omraden", args.area[1]>> >>)
           /\ ParamsOf("paginationantal") = << <<"paginationantal", "100">> >>
           /\ \A k \in 1..Len(url.query) :
                 /\ Len(url.query[k]) = 2
                 /\ url.query[k][1] # "" /\ url.query[k][2] # ""
           /\ url.query = ParamsOf("objektTyper") \o ParamsOf("hyraMax")
                            \o ParamsOf("omraden") \o ParamsOf("paginationantal")

C9_Witness ==
    /\ UrlBuilt
    /\ args.housing_type = "house"
    /\ args.max_rent = Some(1)
    /\ args.area = Some("")
    /\ url.query = << <<"hyraMax", "1">>, <<"paginationantal", "100">> >>

\* C10: whenever a write of the store has failed, every line of the file is a
\* complete header or data line, and the file does not end with a header line.
C10_FailedWriteWellFormed ==
    (prog = "store" /\ pc = "s_raised")
        => /\ \A k \in 1..Len(file.lines) : file.lines[k].kind \in {"header", "data"}
           /\ file.lines # <<>> => file.lines[Len(file.lines)].kind # "header"

Cancelled == prog = "query" /\ pc = "exit" /\ exc = "KeyboardInterrupt"

\* C11: a run of query_sssb ended by an interrupt raised at any position of
\* query has a non-zero exit status, nothing on standard output and no browser
\* session live.
C11_CancelReleasesSession ==
    Cancelled
        => /\ exit_status = 1
           /\ stdout = <<>>
           /\ live = 0

\* The session was not established (no browser created), or the listing page
\* failed to load: driver.get raised, or the wait raised other than by timing
\* out
SessionOrListingFailed ==
    \/ created = 0
    \/ listing_wait = "none"
    \/ listing_wait = "error"

\* C12: a run of query_sssb in which the browser session could not be
\* established or the listing page could not be loaded ends as a failure: exit
\* status non-zero, a diagnostic on stderr, nothing printed as a result.
C12_SessionFailureAborts ==
    (prog = "query" /\ pc = "exit" /\ SessionOrListingFailed)
        => /\ exit_status = 1
           /\ stdout = <<>>
           /\ stderr # <<>>

\* The elements of a set of numbers in increasing order
SortedSeq(S) ==
    [k \in 1..Cardinality(S) |-> CHOOSE x \in S : Cardinality({y \in S : y < x}) = k - 1]

\* The reader of CSV text before its first character: no row read, no field
\* begun.  mode is "plain", "quoted" (inside a quoted field) or "quote_seen"
\* (inside a quoted field, right after a quote character); cr tells that the
\* last character was a "\r" ending a row.
CsvStart ==
    [mode |-> "plain", cr |-> FALSE, pending |-> FALSE, field |-> <<>>, row |-> <<>>, rows |-> <<>>]

\* The reader after one more character outside a quoted field
CsvPlain(st, c) ==
    CASE c = NL /\ st.cr -> [st EXCEPT !.cr = FALSE]
      [] c = "\"" -> [st EXCEPT !.mode = "quoted", !.pending = TRUE, !.cr = FALSE]
      [] c = "," -> [st EXCEPT !.mode = "plain", !.pending = TRUE, !.cr = FALSE,
                               !.row = Append(st.row, st.field), !.field = <<>>]
      [] c \in {CR, NL} /\ ~(c = NL /\ st.cr) ->
           [mode |-> "plain", cr |-> (c = CR), pending |-> FALSE, field |-> <<>>, row |-> <<>>,
            rows |-> IF st.pending THEN Append(st.rows, Append(st.row, st.field)) ELSE st.rows]
      [] OTHER -> [st EXCEPT !.mode = "plain", !.pending = TRUE, !.cr = FALSE,
                             !.field = Append(st.field, c)]

\* The reader after one more character: in a quoted field a doubled quote is
\* one quote character and a single one closes the field
CsvStep(st, c) ==
    CASE st.mode = "quoted" ->
           IF c = "\"" THEN [st EXCEPT !.mode = "quote_seen"]
           ELSE [st EXCEPT !.field = Append(st.field, c)]
      [] st.mode = "quote_seen" ->
           IF c = "\"" THEN [st EXCEPT !.mode = "quoted", !.field = Append(st.field, c)]
           ELSE CsvPlain(st, c)
      [] OTHER -> CsvPlain(st, c)

\* The reader after the characters lo..hi of the text, the first half read
\* before the second
RECURSIVE CsvReadFrom(_, _, _, _)
CsvReadFrom(st, s, lo, hi) ==
    IF lo > hi THEN st
    ELSE IF lo = hi THEN CsvStep(st, s[lo])
    ELSE LET mid == (lo + hi) \div 2
             left == CsvReadFrom(st, s, lo, mid)
         IN  IF left.mode \in {"plain", "quoted", "quote_seen"}
             THEN CsvReadFrom(left, s, mid + 1, hi)
             ELSE left

\* CSV text read by the standard rules: fields separated by ",", rows ended by
\* "\r\n", "\r" or "\n", the last row with or without terminator
CsvRows(s) ==
    LET st == CsvReadFrom(CsvStart, s, 1, Len(s))
    IN  IF st.pending THEN Append(st.rows, Append(st.row, st.field)) ELSE st.rows

\* The text of a JSON string literal, its escapes read back
RECURSIVE json_unescape(_)
json_unescape(e) ==
    IF e = <<>> THEN <<>>
    ELSE IF e[1] = "\\" /\ Len(e) >= 2
    THEN << CASE e[2] = "n" -> NL [] e[2] = "r" -> CR [] OTHER -> e[2] >>
         \o json_unescape(SubSeq(e, 3, Len(e)))
    ELSE <<e[1]>> \o json_unescape(Tail(e))

\* The positions of the keys of the given name in JSON tokens: string tokens
\* followed by ":"
KeyPositions(tokens, key) ==
    SortedSeq({i \in 1..(Len(tokens) - 1) :
                 /\ tokens[i] = [k |-> "string", v |-> <<key>>]
                 /\ tokens[i + 1] = Punct(":")})

\* The tokens that follow the keys of the given name, in order
TokensAfter(tokens, key) ==
    LET at == KeyPositions(tokens, key)
    IN  [j \in 1..Len(at) |-> tokens[at[j] + 2]]

Formatted(fmt) == prog = "format" /\ pc = "f_done" /\ args.output = fmt

\* C13: of an empty collection the table is the message "No housing listings
\* found.", the JSON has total 0 and an empty list of listings, the CSV is the
\* header of 12 labels alone; of k records the JSON has total k and the k
\* listings in input order, and the CSV reads back as the header and the k rows
\* of the records in input order.
C13_FormatsConsistent ==
    LET hs == args.housings
        out == stdout[1].text
    IN  /\ (Formatted("table") /\ hs = <<>>) => out = <<"No housing listings found.">>
        /\ Formatted("json")
              => /\ TokensAfter(out, "total") = <<[k |-> "number", v |-> IntStr(Len(hs))]>>
                 /\ TokensAfter(out, "listings") = <<Punct("[")>>
                 /\ Len(SelectSeq(out, LAMBDA t : t = Punct("{"))) = Len(hs) + 1
                 /\ SubSeq(out, Len(out) - 1, Len(out)) = <<Punct("]"), Punct("}")>>
                 /\ Len(TokensAfter(out, "link")) = Len(hs)
                 /\ Len(TokensAfter(out, "address")) = Len(hs)
                 /\ \A i \in 1..Len(hs) :
                       /\ json_unescape(TokensAfter(out, "link")[i].v) = hs[i].link
                       /\ json_unescape(TokensAfter(out, "address")[i].v) = hs[i].address
                 /\ hs = <<>> => out[Len(out) - 2] = Punct("[")
        /\ Formatted("csv")
              => /\ Len(CsvHeaders) = 12
                 /\ CsvRows(out) = <<CsvHeaders>> \o [i \in 1..Len(hs) |-> csv_row_of(hs[i])]
                 /\ hs = <<>> => out = Join(CsvHeaders, ",") \o <<CR>>

C13_Witness ==
    /\ Formatted("csv")
    /\ Len(args.housings) = 2
    /\ args.housings[1].address = <<"a", NL, "b">>
    /\ args.housings[2].address = <<"s", "\"", "t">>
    /\ Len(CsvRows(stdout[1].text)) = 3
    /\ CsvRows(stdout[1].text)[3][3] = <<"s", "\"", "t">>

\* The lines of the listing text read
Rows == Split(page[1].text, NL)

\* The number of links whose window of 8 lines lies within the lines read
FullWindows ==
    IF Len(Links) <= LineCount \div FIELDS_PER_LISTING
    THEN Len(Links) ELSE LineCount \div FIELDS_PER_LISTING

\* The i-th record is built from the lines 8(i-1)+1 .. 8i and the i-th link
BuiltFromWindow(i) ==
    LET base == FIELDS_PER_LISTING * (i - 1)
        h == housings[i]
    IN  /\ h.link = Links[i]
        /\ h.area = Strip(Rows[base + 1])
        /\ h.address = Strip(Rows[base + 2])
        /\ h.housing_type = Strip(Rows[base + 3])
        /\ h.floor = Strip(Rows[base + 4])
        /\ h.living_space = Strip(Rows[base + 5])
        /\ h.rent = Strip(Rows[base + 6])
        /\ h.move_in_date = Strip(Rows[base + 7])
        /\ IsFirstWord(h.queue_days, Strip(Rows[base + 8]))

WindowsKept ==
    /\ Len(housings) = FullWindows
    /\ \A i \in 1..Len(housings) : BuiltFromWindow(i)

\* C14 as stated: whenever query has read a listing page, it holds as many
\* records as links, and the records are those of the first min(N, L div 8)
\* links, each built from its own 8 lines.
C14_CountEqualsLinks ==
    (prog = "query" /\ page # None)
        => /\ Len(housings) = Len(Links)
           /\ WindowsKept

\* C14 amended: whenever query has read a listing page of N links and L lines,
\* it holds min(N, L div 8) records, the i-th built from the lines 8(i-1)+1..8i
\* and the i-th link; a link whose 8 lines are not all there gives no record.
C14_FullWindowsOnly ==
    (prog = "query" /\ page # None) => WindowsKept

C14_Witness ==
    /\ prog = "query" /\ pc = "exit" /\ page # None
    /\ Len(Links) = 2
    /\ LineCount = 12
    /\ Len(housings) = 1
    /\ BuiltFromWindow(1)

====
